---- MODULE Spec2Model ----
(***************************************************************************)
(* Room / presence / session coordination layer of the chat relay          *)
(* (src/public/app.js, server part, lines 326-418).                         *)
(*                                                                         *)
(* State: the users Map (socket id -> {username, room}), the socket.io     *)
(* room subscriptions of every socket, the server clock read by            *)
(* Date.now(), and the packets emitted by the handler that ran last.       *)
(* One action per socket event handler; every handler runs to completion   *)
(* before the event loop takes the next event (action Return).             *)
(*                                                                         *)
(* The browser pages (client part, lines 3-245) hold myUsername, myRoom,   *)
(* the roster and the typing set they display, and the typing timers;      *)
(* what a page emits waits on its wire until the server handles it, and    *)
(* the packets of a handler reach the pages when it returns (Deliver).     *)
(* POST /upload (lines 270-324) is one exchange: request and response.     *)
(*                                                                         *)
(* Specifications: Spec (the server handlers under arbitrary events),      *)
(* ClientSpec (pages driving the server through their sockets),            *)
(* ClientFairSpec (ClientSpec in which a set timer eventually runs out),   *)
(* ChurnSpec (connections joining and disconnecting, rosters delivered),   *)
(* UploadSpec (upload requests).                                           *)
(*                                                                         *)
(* Strings are kept run-length encoded: a string is a sequence of runs     *)
(* [c |-> character, n |-> repetitions >= 1] in which adjacent runs have   *)
(* different characters, so two strings are equal iff their encodings are. *)
(* slice, trim, startsWith and concatenation are computed on the encoding. *)
(***************************************************************************)
EXTENDS Integers, Sequences, FiniteSets

\* ------------------------------------------------------------------------
\* Bounds of the model
\* ------------------------------------------------------------------------
\* number of socket ids the server hands out
NumConns == 2
\* largest value of the server clock (Date.now())
MaxClock == 1

\* ------------------------------------------------------------------------
\* Program constants
\* ------------------------------------------------------------------------
\* .slice(0, 30) of username and room
MaxNameLen == 30
\* .slice(0, 2000) of a message text
MaxTextLen == 2000

\* ------------------------------------------------------------------------
\* Strings
\* ------------------------------------------------------------------------
\* characters String.prototype.trim removes (those the inputs use)
WhiteSpace == {" ", "\t", "\n"}

\* s.length
RECURSIVE StrLen(_)
StrLen(s) == IF s = <<>> THEN 0 ELSE Head(s).n + StrLen(Tail(s))

\* a + b
Cat(a, b) ==
  IF a = <<>> THEN b
  ELSE IF b = <<>> THEN a
  ELSE IF a[Len(a)].c = b[1].c
       THEN SubSeq(a, 1, Len(a) - 1)
              \o <<[c |-> b[1].c, n |-> a[Len(a)].n + b[1].n]>>
              \o Tail(b)
       ELSE a \o b

\* the string spelled by a tuple of characters
RECURSIVE Str(_)
Str(chars) ==
  IF chars = <<>> THEN <<>>
  ELSE Cat(Str(SubSeq(chars, 1, Len(chars) - 1)),
           <<[c |-> chars[Len(chars)], n |-> 1]>>)

\* the character ch repeated k times
Rep(ch, k) == IF k = 0 THEN <<>> ELSE <<[c |-> ch, n |-> k]>>

\* s.slice(0, k)
RECURSIVE Slice0(_, _)
Slice0(s, k) ==
  IF s = <<>> \/ k <= 0 THEN <<>>
  ELSE IF Head(s).n >= k THEN <<[c |-> Head(s).c, n |-> k]>>
  ELSE <<Head(s)>> \o Slice0(Tail(s), k - Head(s).n)

RECURSIVE TrimStart(_)
TrimStart(s) ==
  IF s = <<>> THEN <<>>
  ELSE IF Head(s).c \in WhiteSpace THEN TrimStart(Tail(s))
  ELSE s

RECURSIVE TrimEnd(_)
TrimEnd(s) ==
  IF s = <<>> THEN <<>>
  ELSE IF s[Len(s)].c \in WhiteSpace THEN TrimEnd(SubSeq(s, 1, Len(s) - 1))
  ELSE s

\* s.trim()
Trim(s) == TrimEnd(TrimStart(s))

\* s.startsWith(p)
StartsWith(s, p) == Slice0(s, StrLen(p)) = p

\* ------------------------------------------------------------------------
\* JavaScript values carried by event payloads
\* ------------------------------------------------------------------------
\* a field the payload does not have
Undefined == [t |-> "undefined"]
\* a string value
JsStr(s) == [t |-> "string", v |-> s]

\* typeof x === 'string'
IsString(x) == x.t = "string"

\* a test every value passes
TruthyAlways(x) == TRUE

\* the truthiness test of `!x`
Truthy(x) == IsString(x) /\ x.v # <<>>

\* String(x)
StringOf(x) ==
  IF IsString(x) THEN x.v
  ELSE Str(<<"u", "n", "d", "e", "f", "i", "n", "e", "d">>)

\* ------------------------------------------------------------------------
\* Payloads the clients send
\* ------------------------------------------------------------------------
alice == Str(<<"a", "l", "i", "c", "e">>)
bob == Str(<<"b", "o", "b">>)
lobby == Str(<<"l", "o", "b", "b", "y">>)
hi == Str(<<"h", "i">>)

\* username fields: a plain one, one longer than the limit, one padded so
\* that its first MaxNameLen characters are blank, a missing one
Usernames ==
  { JsStr(alice),
    JsStr(Rep("c", MaxNameLen + 1)),
    JsStr(Cat(Rep(" ", MaxNameLen), bob)),
    Undefined }

\* room fields: a plain one, one longer than the limit whose cut ends in a
\* blank, a blank one
RoomNames ==
  { JsStr(lobby),
    JsStr(Cat(Rep("r", MaxNameLen - 1), Cat(Rep(" ", 1), Rep("r", 3)))),
    JsStr(Rep(" ", 2)) }

\* text fields: a padded one, a blank one, one longer than the limit, one
\* padded so that its first MaxTextLen characters are blank
Texts ==
  { JsStr(Cat(Rep(" ", 1), Cat(hi, Rep("\n", 1)))),
    JsStr(Rep(" ", 3)),
    JsStr(Rep("x", MaxTextLen + 1)),
    JsStr(Cat(Rep(" ", MaxTextLen), hi)) }

UploadPrefix == Str(<<"/", "u", "p", "l", "o", "a", "d", "s", "/">>)

\* url fields: an upload path, an external URL, a path that only resembles
\* the prefix, a non-string
Urls ==
  { JsStr(Cat(UploadPrefix, Str(<<"1", ".", "p", "n", "g">>))),
    JsStr(Str(<<"h", "t", "t", "p", "s", ":", "/", "/", "e", "v", "i", "l", "/", "x">>)),
    JsStr(Str(<<"/", "u", "p", "l", "o", "a", "d", "s">>)),
    Undefined }

png == Str(<<"i", "m", "a", "g", "e", "/", "p", "n", "g">>)

\* media payloads: every url with a mimetype, and an upload path without
MediaPayloads ==
  {<<url, JsStr(png)>> : url \in Urls}
    \cup {<<JsStr(Cat(UploadPrefix, Str(<<"1", ".", "p", "n", "g">>))), Undefined>>}

\* ------------------------------------------------------------------------
\* State
\* ------------------------------------------------------------------------
\* socket ids
Conn == 1..NumConns

VARIABLES
  sockets,  \* socket id -> "idle" (id not handed out yet), "open", "closed"
            \*   (io.on('connection'), socket.on('disconnect'))
  users,    \* the users Map (line 327): its entries [id, username, room]
            \*   in insertion order
  rooms,    \* socket id -> the socket.io rooms the socket has joined
            \*   (socket.join, line 340); the room socket.io names after the
            \*   socket's own id is left out, no handler emits to it
  now,      \* the server clock, Date.now()
  out,      \* the packets [to, ev] emitted by the handler that has run,
            \*   in order; empty once they are written out
  last,     \* the handler that has run: [op, id, payload, user, ok];
            \*   op "none" when the event loop is idle
  pages,    \* browser page -> the state of the client script (lines 3-245)
            \*   running in it
  wire,     \* browser page -> the events [type, payload] its socket has
            \*   emitted and the server has not handled yet, in order
  http      \* the request POST /upload has answered last and its response

vars == <<sockets, users, rooms, now, out, last, pages, wire, http>>

\* the variables the socket handlers of the server leave alone
cvars == <<pages, wire, http>>

\* browser pages, each running the client script with one socket
Client == 1..NumConns

\* socket ids the server hands out when the pages are modelled: one more than
\* pages, so that a page can connect a second time
SocketIds == 1..(NumConns + 1)

\* the client script's state when the page has loaded (lines 4-27):
\* `const socket = io()` is connecting
NewPage ==
  [sock |-> 0,          \* the id of the socket's connection, 0 while it has none
   prev |-> 0,          \* the id of the connection whose transport dropped, 0
                        \*   if the socket connects for another reason
   myUsername |-> <<>>, \* let myUsername = ''
   myRoom |-> <<>>,     \* let myRoom = ''
   usersList |-> <<>>,  \* the names the users list shows
   typingUsers |-> {},  \* const typingUsers = new Set()
   timers |-> <<>>,     \* the timers setTimeout has set and that are pending
   typingTimeout |-> "done",
                        \* let typingTimeout = null; then the timer set last:
                        \*   "pending", or "done" when it names no pending
                        \*   timer (null, cleared or run out)
   typingOpen |-> FALSE]
                        \* the page has emitted typing and no stop-typing
                        \*   since

\* POST /upload has answered no request yet
NoExchange == [req |-> <<>>, res |-> <<>>]

\* `users.get(id)` found nothing
NoUser == [username |-> <<>>, room |-> <<>>]

\* ------------------------------------------------------------------------
\* The users Map
\* ------------------------------------------------------------------------
\* users.has(id)
MapHas(m, id) == \E i \in 1..Len(m) : m[i].id = id

\* a lookup that falls back to the first session of the Map
MapGetOrFirst(m, id) ==
  IF m = <<>> THEN NoUser
  ELSE LET i == IF MapHas(m, id) THEN CHOOSE i \in 1..Len(m) : m[i].id = id ELSE 1
       IN [username |-> m[i].username, room |-> m[i].room]

\* users.get(id); NoUser for undefined
MapGet(m, id) ==
  IF MapHas(m, id)
  THEN LET i == CHOOSE i \in 1..Len(m) : m[i].id = id
       IN [username |-> m[i].username, room |-> m[i].room]
  ELSE NoUser

\* a Map whose set adds an entry even when the key is present
MapSetAppend(m, id, username, room) ==
  Append(m, [id |-> id, username |-> username, room |-> room])

\* users.set(id, {username, room}): an existing key keeps its position
MapSet(m, id, username, room) ==
  IF MapHas(m, id)
  THEN [i \in 1..Len(m) |->
          IF m[i].id = id
          THEN [id |-> id, username |-> username, room |-> room]
          ELSE m[i]]
  ELSE Append(m, [id |-> id, username |-> username, room |-> room])

\* a delete that removes nothing
MapDeleteNothing(m, id) == m

\* users.delete(id)
MapDelete(m, id) == SelectSeq(m, LAMBDA e : e.id # id)

\* getRoomUsers(room), on the Map m
RECURSIVE getRoomUsersOf(_, _)
getRoomUsersOf(m, room) ==
  IF m = <<>> THEN <<>>
  ELSE (IF Head(m).room = room THEN <<Head(m).username>> ELSE <<>>)
         \o getRoomUsersOf(Tail(m), room)

getRoomUsers(room) == getRoomUsersOf(users, room)

\* ------------------------------------------------------------------------
\* Broadcast (socket.io)
\* ------------------------------------------------------------------------
\* the elements of a set of socket ids, ascending
RECURSIVE Ascending(_)
Ascending(S) ==
  IF S = {} THEN <<>>
  ELSE LET lo == CHOOSE x \in S : \A y \in S : x <= y
       IN <<lo>> \o Ascending(S \ {lo})

\* io.to(room).emit(ev) with except = {}, socket.to(room).emit(ev) with
\* except = {socket.id}: one packet to every socket subscribed to room, under
\* the subscriptions rs
Emit(rs, room, except, ev) ==
  LET to == Ascending({c \in DOMAIN rs : room \in rs[c]} \ except)
  IN [i \in 1..Len(to) |-> [to |-> to[i], ev |-> ev]]

\* the events
SystemEv(message, ts) ==
  [type |-> "system", message |-> message, timestamp |-> ts]
RoomUsersEv(list) ==
  [type |-> "room-users", users |-> list]
MessageEv(id, username, text, ts) ==
  [type |-> "message", id |-> <<id, ts>>, username |-> username,
   text |-> text, timestamp |-> ts]
MediaEv(id, username, url, mimetype, ts) ==
  [type |-> "media", id |-> <<id, ts>>, username |-> username,
   url |-> url, mimetype |-> mimetype, timestamp |-> ts]
TypingEv(type, username) ==
  [type |-> type, username |-> username]

JoinedTheRoom == Str(<<" ", "j", "o", "i", "n", "e", "d", " ", "t", "h", "e", " ", "r", "o", "o", "m">>)
LeftTheRoom == Str(<<" ", "l", "e", "f", "t", " ", "t", "h", "e", " ", "r", "o", "o", "m">>)

\* ------------------------------------------------------------------------
\* Handlers
\* ------------------------------------------------------------------------
\* no handler is running
NoEvent == [op |-> "none", id |-> 0, payload |-> <<>>, user |-> NoUser, ok |-> FALSE]

\* the event loop is ready to run the handler of the next event
Idle == last = NoEvent

Init ==
  /\ sockets = [c \in Conn |-> "idle"]
  /\ users = <<>>
  /\ rooms = [c \in Conn |-> {}]
  /\ now = 0
  /\ out = <<>>
  /\ last = NoEvent
  /\ pages = [k \in Client |-> NewPage]
  /\ wire = [k \in Client |-> <<>>]
  /\ http = NoExchange

\* the handler returned before emitting anything
Dropped(op, id, payload, user) ==
  /\ out' = <<>>
  /\ last' = [op |-> op, id |-> id, payload |-> payload, user |-> user,
              ok |-> FALSE]
  /\ UNCHANGED <<sockets, users, rooms, now>>

\* io.on('connection'): a new socket with a fresh id
Connect(id) ==
  /\ Idle
  /\ sockets[id] = "idle"
  /\ \A other \in DOMAIN sockets : other < id => sockets[other] # "idle"
  /\ sockets' = [sockets EXCEPT ![id] = "open"]
  /\ out' = <<>>
  /\ last' = [op |-> "connection", id |-> id, payload |-> <<>>, user |-> NoUser,
              ok |-> TRUE]
  /\ UNCHANGED <<users, rooms, now>>

\* names trimmed but not cut
SafeNameNoCut(x) == Trim(StringOf(x))

\* String(x).slice(0, 30).trim()
SafeName(x) == Trim(Slice0(StringOf(x), MaxNameLen))

\* a text cut but not trimmed
SafeTextNoTrim(x) == Slice0(StringOf(x), MaxTextLen)

\* String(text).slice(0, 2000).trim()
SafeText(x) == Trim(Slice0(StringOf(x), MaxTextLen))

\* socket.join(room)
SocketJoin(rs, id, room) == [rs EXCEPT ![id] = @ \cup {room}]

\* a join whose notice goes to the whole room, the joiner included
JoinEmitsToAll(rs, m, id, safeUsername, safeRoom, ts) ==
  Emit(rs, safeRoom, {}, SystemEv(Cat(safeUsername, JoinedTheRoom), ts))
    \o Emit(rs, safeRoom, {}, RoomUsersEv(getRoomUsersOf(m, safeRoom)))

\* the two emits of the join handler
JoinEmits(rs, m, id, safeUsername, safeRoom, ts) ==
  Emit(rs, safeRoom, {id}, SystemEv(Cat(safeUsername, JoinedTheRoom), ts))
    \o Emit(rs, safeRoom, {}, RoomUsersEv(getRoomUsersOf(m, safeRoom)))

\* socket.on('join', ({ username, room }) => ...)
Join(id, username, room) ==
  /\ Idle
  /\ sockets[id] = "open"
  /\ IF ~Truthy(username) \/ ~Truthy(room)
     THEN Dropped("join", id, <<username, room>>, NoUser)
     ELSE LET safeUsername == SafeName(username)
              safeRoom == SafeName(room)
          IN IF safeUsername = <<>> \/ safeRoom = <<>>
             THEN Dropped("join", id, <<username, room>>, NoUser)
             ELSE /\ users' = MapSet(users, id, safeUsername, safeRoom)
                  /\ rooms' = SocketJoin(rooms, id, safeRoom)
                  /\ out' = JoinEmits(rooms', users', id, safeUsername, safeRoom, now)
                  /\ last' = [op |-> "join", id |-> id, payload |-> <<username, room>>,
                              user |-> [username |-> safeUsername, room |-> safeRoom],
                              ok |-> TRUE]
                  /\ UNCHANGED <<sockets, now>>

\* a message emit that leaves out the sender
MessageEmitsToOthers(rs, id, user, safeText, ts) ==
  Emit(rs, user.room, {id}, MessageEv(id, user.username, safeText, ts))

\* the emit of the message handler
MessageEmits(rs, id, user, safeText, ts) ==
  Emit(rs, user.room, {}, MessageEv(id, user.username, safeText, ts))

\* socket.on('message', ({ text }) => ...)
Message(id, text) ==
  /\ Idle
  /\ sockets[id] = "open"
  /\ LET user == MapGet(users, id)
         safeText == SafeText(text)
     IN IF user = NoUser \/ safeText = <<>>
        THEN Dropped("message", id, <<text>>, user)
        ELSE /\ out' = MessageEmits(rooms, id, user, safeText, now)
             /\ last' = [op |-> "message", id |-> id, payload |-> <<text>>,
                         user |-> user, ok |-> TRUE]
             /\ UNCHANGED <<sockets, users, rooms, now>>

\* a url check that tests the type only
BadUrlTypeOnly(url) == ~IsString(url)

\* typeof url !== 'string' || !url.startsWith('/uploads/')
BadUrl(url) == ~IsString(url) \/ ~StartsWith(StringOf(url), UploadPrefix)

\* the emit of the media handler
MediaEmits(rs, id, user, url, mimetype, ts) ==
  Emit(rs, user.room, {}, MediaEv(id, user.username, url, mimetype, ts))

\* socket.on('media', ({ url, mimetype }) => ...)
Media(id, url, mimetype) ==
  /\ Idle
  /\ sockets[id] = "open"
  /\ LET user == MapGet(users, id)
     IN IF user = NoUser \/ BadUrl(url)
        THEN Dropped("media", id, <<url, mimetype>>, user)
        ELSE /\ out' = MediaEmits(rooms, id, user, url.v, StringOf(mimetype), now)
             /\ last' = [op |-> "media", id |-> id, payload |-> <<url, mimetype>>,
                         user |-> user, ok |-> TRUE]
             /\ UNCHANGED <<sockets, users, rooms, now>>

\* a typing emit that goes to the whole room, the sender included
TypingEmitsToAll(rs, id, user, type) ==
  Emit(rs, user.room, {}, TypingEv(type, user.username))

\* the emit of the typing and stop-typing handlers
TypingEmits(rs, id, user, type) ==
  Emit(rs, user.room, {id}, TypingEv(type, user.username))

\* socket.on('typing', ...) and socket.on('stop-typing', ...)
TypingOf(id, type) ==
  /\ Idle
  /\ sockets[id] = "open"
  /\ LET user == MapGet(users, id)
     IN IF user = NoUser
        THEN Dropped(type, id, <<>>, user)
        ELSE /\ out' = TypingEmits(rooms, id, user, type)
             /\ last' = [op |-> type, id |-> id, payload |-> <<>>, user |-> user,
                         ok |-> TRUE]
             /\ UNCHANGED <<sockets, users, rooms, now>>

Typing(id) == TypingOf(id, "typing")

StopTyping(id) == TypingOf(id, "stop-typing")

\* a disconnect that sends the roster but no notice
DisconnectEmitsNoNotice(rs, m, id, user, ts) ==
  Emit(rs, user.room, {}, RoomUsersEv(getRoomUsersOf(m, user.room)))

\* the two emits of the disconnect handler
DisconnectEmits(rs, m, id, user, ts) ==
  Emit(rs, user.room, {id}, SystemEv(Cat(user.username, LeftTheRoom), ts))
    \o Emit(rs, user.room, {}, RoomUsersEv(getRoomUsersOf(m, user.room)))

\* a socket that is still in its rooms when its 'disconnect' listeners run
SocketLeaveNone(rs, id) == rs

\* the rooms of a socket when its 'disconnect' listeners run: socket.io has
\* taken the socket out of every room by then
SocketLeaveAll(rs, id) == [rs EXCEPT ![id] = {}]

\* socket.on('disconnect', ...)
Disconnect(id) ==
  /\ Idle
  /\ sockets[id] = "open"
  /\ sockets' = [sockets EXCEPT ![id] = "closed"]
  /\ rooms' = SocketLeaveAll(rooms, id)
  /\ LET user == MapGet(users, id)
     IN /\ last' = [op |-> "disconnect", id |-> id, payload |-> <<>>, user |-> user,
                    ok |-> user # NoUser]
        /\ IF user # NoUser
           THEN /\ users' = MapDelete(users, id)
                /\ out' = DisconnectEmits(rooms', users', id, user, now)
           ELSE /\ out' = <<>>
                /\ UNCHANGED users
  /\ UNCHANGED now

\* the handler has returned and its packets are written out: the event loop
\* is ready for the next event
Return ==
  /\ ~Idle
  /\ out' = <<>>
  /\ last' = NoEvent
  /\ UNCHANGED <<sockets, users, rooms, now>>

\* time passes between two events
Tick ==
  /\ Idle
  /\ now < MaxClock
  /\ now' = now + 1
  /\ UNCHANGED <<sockets, users, rooms, out, last>>

\* the server under arbitrary clients: any event, with any payload, from any
\* open connection; what the pages do with the packets is left out
Next ==
  \/ \E id \in Conn : Connect(id) /\ UNCHANGED cvars
  \/ \E id \in Conn, username \in Usernames, room \in RoomNames :
       Join(id, username, room) /\ UNCHANGED cvars
  \/ \E id \in Conn, text \in Texts : Message(id, text) /\ UNCHANGED cvars
  \/ \E id \in Conn, payload \in MediaPayloads :
       Media(id, payload[1], payload[2]) /\ UNCHANGED cvars
  \/ \E id \in Conn : Typing(id) /\ UNCHANGED cvars
  \/ \E id \in Conn : StopTyping(id) /\ UNCHANGED cvars
  \/ \E id \in Conn : Disconnect(id) /\ UNCHANGED cvars
  \/ Return /\ UNCHANGED cvars
  \/ Tick /\ UNCHANGED cvars

Spec == Init /\ [][Next]_vars

\* ------------------------------------------------------------------------
\* The client script (lines 3-245) and the pages that run it
\* ------------------------------------------------------------------------
\* what the user types into the username field of the login screen: a padded
\* name longer than the server's limit, a blank one
NameInputs ==
  { Cat(Rep("c", MaxNameLen + 1), Rep(" ", 1)),
    Rep(" ", 1) }

\* what the user types into the room field
RoomInputs == { lobby }

\* what the user types into the message field: a padded text, a blank one
TextInputs ==
  { Cat(hi, Rep(" ", 1)),
    Rep(" ", 2) }

\* setTimeout(..., 2000) of the input listener
TypingDelay == 2000

\* socket.emit(type, payload): the event goes after those the page has
\* emitted and the server has not handled yet
SocketEmit(w, type, payload) == Append(w, [type |-> type, payload |-> payload])

\* the chat screen is shown: showScreen(chatScreen) in join,
\* showScreen(loginScreen) in the Leave listener
ChatScreen(p) == p.myRoom # <<>>

\* page k takes the next user action or transport event: the server's
\* handlers have returned, their packets are delivered, and the events the
\* pages have emitted are handled (the events in flight are those of one
\* client handler and of the timers)
Ready(k) == Idle /\ \A j \in Client : wire[j] = <<>>

ClientInit ==
  /\ sockets = [c \in SocketIds |-> "idle"]
  /\ users = <<>>
  /\ rooms = [c \in SocketIds |-> {}]
  /\ now = 0
  /\ out = <<>>
  /\ last = NoEvent
  /\ pages = [k \in Client |-> NewPage]
  /\ wire = [k \in Client |-> <<>>]
  /\ http = NoExchange

\* a clearTimeout that cancels nothing
ClearTimeoutNothing(p) == p

\* clearTimeout(typingTimeout): cancels the timer the handle names if it is
\* pending; that timer is the one set last
ClearTimeout(p) ==
  IF p.typingTimeout = "pending"
  THEN [p EXCEPT !.timers = SubSeq(@, 1, Len(@) - 1),
                 !.typingTimeout = "done"]
  ELSE p

\* typingTimeout = setTimeout(() => socket.emit('stop-typing'), delay)
SetTimeout(p, delay) ==
  [p EXCEPT !.timers = Append(@, [delay |-> delay, emits |-> "stop-typing"]),
            !.typingTimeout = "pending"]

\* socket.on('reconnect', ...): the events on the wire after it has run
OnReconnect(p, w) ==
  IF p.myUsername # <<>> /\ p.myRoom # <<>>
  THEN SocketEmit(w, "join", <<JsStr(p.myUsername), JsStr(p.myRoom)>>)
  ELSE w

\* the socket of page k gets a connection: io() at page load, socket.connect()
\* after Leave, or the automatic reconnection after the transport dropped.
\* The events emitted meanwhile were buffered and go out first. After a
\* reconnection the 'reconnect' listener of the socket runs if the socket.io
\* client emits that event on the socket (version 2 does, versions 3 and
\* later emit it on the Manager only): `fires` takes both outcomes.
ClientConnect(k, fires) ==
  /\ pages[k].sock = 0
  /\ \E id \in DOMAIN sockets :
       /\ Connect(id)
       /\ pages' = [pages EXCEPT ![k].sock = id]
       /\ wire' = [wire EXCEPT ![k] =
                     IF pages[k].prev # 0 /\ fires
                     THEN OnReconnect(pages[k], @)
                     ELSE @]

\* function join() (lines 131-145), on the login screen, with the values of
\* the two input fields
join(k, usernameInput, roomInput) ==
  /\ Ready(k)
  /\ ~ChatScreen(pages[k])
  /\ LET username == Trim(usernameInput)
         room == Trim(roomInput)
     IN IF username = <<>> \/ room = <<>>
        THEN UNCHANGED <<pages, wire>>
        ELSE /\ pages' = [pages EXCEPT ![k].myUsername = username,
                                       ![k].myRoom = room]
             /\ wire' = [wire EXCEPT ![k] =
                           SocketEmit(@, "join", <<JsStr(username), JsStr(room)>>)]
  /\ UNCHANGED <<sockets, users, rooms, now, out, last>>

\* the click listener of the Leave button (lines 153-165), on the chat
\* screen: socket.disconnect() closes the connection, socket.connect() asks
\* for a new one
OnLeaveClick(k) ==
  /\ Ready(k)
  /\ ChatScreen(pages[k])
  /\ pages' = [pages EXCEPT ![k].sock = 0,
                            ![k].prev = 0,
                            ![k].usersList = <<>>,
                            ![k].typingUsers = {},
                            ![k].myUsername = <<>>,
                            ![k].myRoom = <<>>]
  /\ UNCHANGED <<sockets, users, rooms, now, out, last, wire>>

\* function sendMessage() (lines 168-175), on the chat screen, with the
\* value of the message field
sendMessage(k, messageInput) ==
  /\ Ready(k)
  /\ ChatScreen(pages[k])
  /\ LET text == Trim(messageInput)
     IN IF text = <<>>
        THEN UNCHANGED <<pages, wire>>
        ELSE /\ wire' = [wire EXCEPT ![k] =
                           SocketEmit(SocketEmit(@, "message", <<JsStr(text)>>),
                                      "stop-typing", <<>>)]
             /\ pages' = [pages EXCEPT ![k] =
                            [ClearTimeout(@) EXCEPT !.typingOpen = FALSE]]
  /\ UNCHANGED <<sockets, users, rooms, now, out, last>>

\* the 'input' listener of the message field (lines 186-191)
OnInput(k) ==
  /\ Ready(k)
  /\ IF pages[k].myRoom = <<>>
     THEN UNCHANGED <<pages, wire>>
     ELSE /\ wire' = [wire EXCEPT ![k] = SocketEmit(@, "typing", <<>>)]
          /\ pages' = [pages EXCEPT ![k] =
                         [SetTimeout(ClearTimeout(@), TypingDelay)
                            EXCEPT !.typingOpen = TRUE]]
  /\ UNCHANGED <<sockets, users, rooms, now, out, last>>

\* a pending timer of page k runs out: its callback emits stop-typing
TimerFire(k) ==
  /\ \E i \in DOMAIN pages[k].timers :
       /\ pages' = [pages EXCEPT
            ![k].timers = SubSeq(@, 1, i - 1) \o SubSeq(@, i + 1, Len(@)),
            ![k].typingTimeout =
               IF i = Len(pages[k].timers) THEN "done" ELSE @,
            ![k].typingOpen = FALSE]
       /\ wire' = [wire EXCEPT ![k] =
                     SocketEmit(@, pages[k].timers[i].emits, <<>>)]
  /\ UNCHANGED <<sockets, users, rooms, now, out, last>>

\* the transport of page k's socket drops: the socket has no connection until
\* it has reconnected; the server keeps the old connection open until it
\* notices (action ServerNotices)
TransportDrop(k) ==
  /\ Ready(k)
  /\ pages[k].sock # 0
  /\ pages' = [pages EXCEPT ![k].sock = 0, ![k].prev = pages[k].sock]
  /\ UNCHANGED <<sockets, users, rooms, now, out, last, wire>>

\* the server notices that a connection whose page has dropped or closed it
\* is gone, and runs the socket's 'disconnect' listener
ServerNotices(id) ==
  /\ \A k \in Client : pages[k].sock # id
  /\ Disconnect(id)
  /\ UNCHANGED cvars

\* the server handles the next event of page k's socket: a join
ServeJoin(k) ==
  /\ wire[k] # <<>>
  /\ pages[k].sock # 0
  /\ Head(wire[k]).type = "join"
  /\ Join(pages[k].sock, Head(wire[k]).payload[1], Head(wire[k]).payload[2])
  /\ wire' = [wire EXCEPT ![k] = Tail(@)]
  /\ UNCHANGED pages

\* ... a message
ServeMessage(k) ==
  /\ wire[k] # <<>>
  /\ pages[k].sock # 0
  /\ Head(wire[k]).type = "message"
  /\ Message(pages[k].sock, Head(wire[k]).payload[1])
  /\ wire' = [wire EXCEPT ![k] = Tail(@)]
  /\ UNCHANGED pages

\* ... a typing or stop-typing
ServeTyping(k) ==
  /\ wire[k] # <<>>
  /\ pages[k].sock # 0
  /\ Head(wire[k]).type \in {"typing", "stop-typing"}
  /\ TypingOf(pages[k].sock, Head(wire[k]).type)
  /\ wire' = [wire EXCEPT ![k] = Tail(@)]
  /\ UNCHANGED pages

\* const isMe = username === myUsername, of appendMessage and appendMedia:
\* the class of the row the page appends for a message or media event
IsMe(p, ev) == ev.username = p.myUsername

\* the listener of the page for the event a packet carries
\* (socket.on(...), lines 218-234); the rows appended to the message list
\* are not kept
OnPacket(p, ev) ==
  CASE ev.type = "room-users" -> [p EXCEPT !.usersList = ev.users]
    [] ev.type = "typing" -> [p EXCEPT !.typingUsers = @ \cup {ev.username}]
    [] ev.type = "stop-typing" -> [p EXCEPT !.typingUsers = @ \ {ev.username}]
    [] OTHER -> p

\* the page after the packets of o addressed to its connection, in order
RECURSIVE Receive(_, _)
Receive(p, o) ==
  IF o = <<>> THEN p
  ELSE Receive(IF Head(o).to = p.sock THEN OnPacket(p, Head(o).ev) ELSE p,
               Tail(o))

\* the handler has returned and its packets are written out; the pages whose
\* socket has the connection a packet is addressed to receive it
Deliver ==
  /\ Return
  /\ pages' = [k \in Client |-> Receive(pages[k], out)]
  /\ UNCHANGED <<wire, http>>

ClientNext ==
  \/ \E k \in Client, fires \in BOOLEAN :
       ClientConnect(k, fires) /\ UNCHANGED http
  \/ \E k \in Client, usernameInput \in NameInputs, roomInput \in RoomInputs :
       join(k, usernameInput, roomInput) /\ UNCHANGED http
  \/ \E k \in Client : OnLeaveClick(k) /\ UNCHANGED http
  \/ \E k \in Client, messageInput \in TextInputs :
       sendMessage(k, messageInput) /\ UNCHANGED http
  \/ \E k \in Client : OnInput(k) /\ UNCHANGED http
  \/ \E k \in Client : TimerFire(k) /\ UNCHANGED http
  \/ \E k \in Client : TransportDrop(k) /\ UNCHANGED http
  \/ \E id \in SocketIds : ServerNotices(id)
  \/ \E k \in Client : ServeJoin(k) /\ UNCHANGED http
  \/ \E k \in Client : ServeMessage(k) /\ UNCHANGED http
  \/ \E k \in Client : ServeTyping(k) /\ UNCHANGED http
  \/ Deliver

\* connection id opens, for the socket of page id
Open(id) ==
  /\ Connect(id)
  /\ pages' = [pages EXCEPT ![id].sock = id]
  /\ UNCHANGED <<wire, http>>

\* join and disconnect events in any order, with any payload, from any open
\* connection; page id shows what connection id receives
ChurnNext ==
  \/ \E id \in Conn : Open(id)
  \/ \E id \in Conn, username \in Usernames, room \in RoomNames :
       Join(id, username, room) /\ UNCHANGED cvars
  \/ \E id \in Conn : Disconnect(id) /\ UNCHANGED cvars
  \/ Deliver

ChurnSpec == Init /\ [][ChurnNext]_vars

\* the server with the pages as its clients
ClientSpec == ClientInit /\ [][ClientNext]_vars

\* ... where a pending timer runs out
ClientFairSpec ==
  ClientSpec /\ \A k \in Client : WF_vars(TimerFire(k) /\ UNCHANGED http)

\* ------------------------------------------------------------------------
\* The upload endpoint (lines 267-324)
\* ------------------------------------------------------------------------
\* limits: { fileSize: 5 * 1024 * 1024 }
MaxFileSize == 5242880

ALLOWED_MIME_TYPES ==
  { Str(<<"i", "m", "a", "g", "e", "/", "j", "p", "e", "g">>),
    Str(<<"i", "m", "a", "g", "e", "/", "p", "n", "g">>),
    Str(<<"i", "m", "a", "g", "e", "/", "g", "i", "f">>),
    Str(<<"i", "m", "a", "g", "e", "/", "w", "e", "b", "p">>),
    Str(<<"v", "i", "d", "e", "o", "/", "m", "p", "4">>),
    Str(<<"v", "i", "d", "e", "o", "/", "w", "e", "b", "m">>),
    Str(<<"a", "u", "d", "i", "o", "/", "m", "p", "e", "g">>),
    Str(<<"a", "u", "d", "i", "o", "/", "o", "g", "g">>),
    Str(<<"a", "p", "p", "l", "i", "c", "a", "t", "i", "o", "n", "/", "p", "d", "f">>) }

SAFE_ERROR_MESSAGES == { "File type not allowed", "No file uploaded" }

\* a multipart form without a file part
NoFile == [size |-> 0, mimetype |-> <<>>]

\* the requests: no file; or a file part, in the field 'media' or in another
\* one, of a size up to or over the limit, of an allowed type or not, which
\* the disk storage writes or fails to write (fault, the error's message)
Requests ==
  { [field |-> "media", file |-> NoFile, fault |-> ""] }
    \cup
  { [field |-> f, file |-> [size |-> n, mimetype |-> m], fault |-> e] :
      f \in {"media", "file"},
      n \in {1, 4194304, MaxFileSize + 1, 6291456},
      m \in ALLOWED_MIME_TYPES \cup {Str(<<"t", "e", "x", "t", "/", "h", "t", "m", "l">>), Str(<<"i", "m", "a", "g", "e", "/", "s", "v", "g", "+", "x", "m", "l">>)},
      e \in {"", "ENOSPC: no space left on device, write"} }

\* names the storage's filename function can give a file: Date.now(), a
\* random number and the sanitised extension of the original name
FileNames ==
  { Str(<<"1", "-", "7", ".", "p", "n", "g">>),
    Str(<<"1", "-", "7">>) }

\* res.status(400).json({ error: message })
ErrorResponse(message) == [status |-> 400, body |-> [error |-> message]]

\* res.json({ url, mimetype })
OkResponse(url, mimetype) ==
  [status |-> 200, body |-> [url |-> url, mimetype |-> mimetype]]

\* upload.single('media'): the error multer passes to next(err), or the file
\* it stores in req.file. multer rejects a file part in another field
\* ('Unexpected field'), asks fileFilter, then streams the file to the
\* storage and stops with 'File too large' past limits.fileSize
UploadSingle(req, filename) ==
  IF req.file = NoFile
  THEN [err |-> "", file |-> NoFile]
  ELSE IF req.field # "media"
  THEN [err |-> "Unexpected field", file |-> NoFile]
  ELSE IF req.file.mimetype \notin ALLOWED_MIME_TYPES
  THEN [err |-> "File type not allowed", file |-> NoFile]
  ELSE IF req.file.size > MaxFileSize
  THEN [err |-> "File too large", file |-> NoFile]
  ELSE IF req.fault # ""
  THEN [err |-> req.fault, file |-> NoFile]
  ELSE [err |-> "",
        file |-> [filename |-> filename, mimetype |-> req.file.mimetype]]

\* the route handler of app.post('/upload', ...)
UploadRoute(file) ==
  IF file = NoFile
  THEN ErrorResponse("No file uploaded")
  ELSE OkResponse(Cat(UploadPrefix, file.filename), file.mimetype)

\* the error handler app.use((err, _req, res, _next) => ...)
ErrorHandler(err) ==
  ErrorResponse(IF err \in SAFE_ERROR_MESSAGES THEN err ELSE "Bad request")

\* the response to POST /upload
UploadResponse(req, filename) ==
  LET got == UploadSingle(req, filename)
  IN IF got.err # "" THEN ErrorHandler(got.err) ELSE UploadRoute(got.file)

\* POST /upload answers a request
PostUpload(req, filename) ==
  /\ http' = [req |-> req, res |-> UploadResponse(req, filename)]
  /\ UNCHANGED <<sockets, users, rooms, now, out, last, pages, wire>>

UploadNext == \E req \in Requests, filename \in FileNames : PostUpload(req, filename)

\* the upload endpoint alone, under any sequence of requests
UploadSpec == Init /\ [][UploadNext]_vars

\* ------------------------------------------------------------------------
\* Vocabulary of the properties
\* ------------------------------------------------------------------------
\* the connections whose current session, in the Map m, has room R
InRoom(m, R) == {m[i].id : i \in {j \in DOMAIN m : m[j].room = R}}

\* how many packets of o carry the event ev to connection c
Received(o, c, ev) == Cardinality({i \in DOMAIN o : o[i].to = c /\ o[i].ev = ev})

\* how many packets of o carry an event of the given type to connection c
ReceivedOfType(o, c, type) ==
  Cardinality({i \in DOMAIN o : o[i].to = c /\ o[i].ev.type = type})

\* how many times the value x occurs in the list
Occurrences(list, x) == Cardinality({i \in DOMAIN list : list[i] = x})

\* the rooms that have a session in the Map, and the room of the session
\* the handler that ran last wrote, read or removed; getRoomUsers of any
\* other room is empty
StoredRooms == {users[i].room : i \in DOMAIN users} \cup {last.user.room}

\* C1: after a successful join of connection c into room R as u, every other
\* connection whose session's room is R has been sent exactly one system
\* notice "u joined the room" and c none; every connection whose session's
\* room is R, c included, has been sent exactly one room-users roster, equal
\* to getRoomUsers(R) on the Map that holds c's new session.
JoinNotifiesRoom ==
  (last.op = "join" /\ last.ok) =>
    LET c == last.id
        R == last.user.room
        notice == SystemEv(Cat(last.user.username, JoinedTheRoom), now)
    IN /\ c \in InRoom(users, R)
       /\ \A d \in InRoom(users, R) :
            /\ ReceivedOfType(out, d, "system") = (IF d = c THEN 0 ELSE 1)
            /\ Received(out, d, notice) = (IF d = c THEN 0 ELSE 1)
            /\ ReceivedOfType(out, d, "room-users") = 1
            /\ Received(out, d, RoomUsersEv(getRoomUsers(R))) = 1

\* C1 witness: a join into a room that already had another member
JoinNotifiesRoomWitness ==
  /\ last.op = "join" /\ last.ok
  /\ \E d \in InRoom(users, last.user.room) :
       d # last.id /\ ReceivedOfType(out, d, "system") = 1
  /\ ReceivedOfType(out, last.id, "room-users") = 1

\* C2: for every room R, getRoomUsers(R) lists exactly the usernames of the
\* open connections whose session's room is R, each connection once; a
\* connection whose disconnect has been processed has no entry in the Map.
MembersAreLiveSessions ==
  /\ \A c \in Conn : sockets[c] # "open" => ~MapHas(users, c)
  /\ \A R \in StoredRooms :
       LET live == {c \in Conn : sockets[c] = "open" /\ c \in InRoom(users, R)}
           names == {MapGet(users, c).username : c \in live}
           members == getRoomUsers(R)
       IN /\ Len(members) = Cardinality(live)
          /\ \A i \in DOMAIN members : members[i] \in names
          /\ \A u \in names :
               Occurrences(members, u)
                 = Cardinality({c \in live : MapGet(users, c).username = u})

\* C2 witness: a member has disconnected from a room that keeps a member
MembersAreLiveSessionsWitness ==
  /\ last.op = "disconnect" /\ last.ok
  /\ Len(getRoomUsers(last.user.room)) >= 1

\* C3: every packet of a broadcast addressed to room R goes to a connection
\* whose current session's room is R (R is the room of the session the
\* handler that ran last wrote, read or removed).
BroadcastOnlyToRoomMembers ==
  \A i \in DOMAIN out : out[i].to \in InRoom(users, last.user.room)

\* C4: the Map holds at most one entry per connection; after a successful
\* join by c that entry is the session the join wrote, and c accounts for
\* exactly one name of getRoomUsers of that room and for no name of
\* getRoomUsers of any other room.
OneSessionPerConnection ==
  /\ \A c \in Conn : Cardinality({i \in DOMAIN users : users[i].id = c}) <= 1
  /\ (last.op = "join" /\ last.ok) =>
       LET c == last.id
           others == SelectSeq(users, LAMBDA e : e.id # c)
       IN /\ MapGet(users, c) = last.user
          /\ \A R \in StoredRooms :
               Len(getRoomUsers(R))
                 = Len(getRoomUsersOf(others, R))
                     + (IF R = last.user.room THEN 1 ELSE 0)

\* C4 witness: a connection has joined again, into another room
OneSessionPerConnectionWitness ==
  /\ last.op = "join" /\ last.ok
  /\ \E R \in rooms[last.id] : R # last.user.room

\* C10: after a typing or stop-typing event from a connection with session
\* (u, R), every other connection whose session's room is R has been sent
\* exactly one packet, the event of that type with username u, and the
\* sender has been sent nothing.
TypingReachesOthersOnly ==
  (last.op \in {"typing", "stop-typing"} /\ last.ok) =>
    LET c == last.id
    IN /\ MapGet(users, c) = last.user
       /\ \A d \in InRoom(users, last.user.room) \ {c} :
            /\ Received(out, d, TypingEv(last.op, last.user.username)) = 1
            /\ Cardinality({i \in DOMAIN out : out[i].to = d}) = 1
       /\ \A i \in DOMAIN out : out[i].to # c

\* C10 witness: a stop-typing event has reached another member of the room
TypingReachesOthersOnlyWitness ==
  /\ last.op = "stop-typing" /\ last.ok
  /\ \E d \in InRoom(users, last.user.room) : d # last.id /\ ReceivedOfType(out, d, "stop-typing") = 1

\* C5: a step that closes connection c: if c had a session (u, R), the
\* session is gone from the Map and every other entry is kept, every
\* connection still in R is sent exactly one system notice "u left the room"
\* and exactly one roster, equal to getRoomUsers(R) on the Map without c, and
\* c is sent nothing; if c had no session, the Map is unchanged and no packet
\* is sent.
DisconnectCleansUp ==
  [][\A c \in Conn :
       (sockets[c] = "open" /\ sockets'[c] = "closed") =>
         LET user == MapGet(users, c)
         IN IF MapHas(users, c)
            THEN /\ ~MapHas(users', c)
                 /\ users' = SelectSeq(users, LAMBDA e : e.id # c)
                 /\ \A d \in InRoom(users', user.room) :
                      /\ Received(out', d,
                           SystemEv(Cat(user.username, LeftTheRoom), now)) = 1
                      /\ ReceivedOfType(out', d, "system") = 1
                      /\ Received(out', d,
                           RoomUsersEv(getRoomUsersOf(users', user.room))) = 1
                      /\ ReceivedOfType(out', d, "room-users") = 1
                 /\ \A i \in DOMAIN out' : out'[i].to # c
            ELSE users' = users /\ out' = <<>>]_vars

\* C5 witness: a member has disconnected and a remaining member of its room
\* has been sent the notice and the roster
DisconnectCleansUpWitness ==
  /\ last.op = "disconnect" /\ last.ok
  /\ \E d \in InRoom(users, last.user.room) :
       ReceivedOfType(out, d, "system") = 1 /\ ReceivedOfType(out, d, "room-users") = 1

\* the message event with the given text has reached the room of the
\* sender: every connection whose session's room is that of the sender, the
\* sender included, has been sent exactly one message event, with the
\* sender's username, that text and the server's clock
MessageDelivered(text) ==
  /\ last.ok
  /\ last.id \in InRoom(users, last.user.room)
  /\ \A d \in InRoom(users, last.user.room) :
       /\ Received(out, d,
            MessageEv(last.id, last.user.username, text, now)) = 1
       /\ ReceivedOfType(out, d, "message") = 1

\* C6 as claimed: a message event whose text is non-empty after trimming,
\* from a connection with a session, is delivered with the trimmed text.
MessageReachesRoomTrimmed ==
  (/\ last.op = "message"
   /\ last.user # NoUser
   /\ IsString(last.payload[1])
   /\ Trim(last.payload[1].v) # <<>>)
    => MessageDelivered(Trim(last.payload[1].v))

\* C6 as amended: a message event whose text, cut to its first 2000
\* characters and then trimmed, is non-empty, from a connection with a
\* session, is delivered with that cut and trimmed text.
MessageReachesRoom ==
  (/\ last.op = "message"
   /\ last.user # NoUser
   /\ IsString(last.payload[1])
   /\ Trim(Slice0(last.payload[1].v, MaxTextLen)) # <<>>)
    => MessageDelivered(Trim(Slice0(last.payload[1].v, MaxTextLen)))

\* C6 witness: a text longer than the limit has been delivered, cut, to the
\* sender and to another member
MessageReachesRoomWitness ==
  /\ last.op = "message" /\ last.ok
  /\ IsString(last.payload[1])
  /\ StrLen(last.payload[1].v) > MaxTextLen
  /\ \E d \in InRoom(users, last.user.room) : d # last.id
  /\ \A d \in InRoom(users, last.user.room) :
       \E i \in DOMAIN out : out[i].to = d /\ StrLen(out[i].ev.text) = MaxTextLen

\* C7: a media event from a connection with session (u, R): if url is a
\* string that starts with "/uploads/", every connection whose session's room
\* is R, the sender included, is sent exactly one media event with u, the url
\* and String(mimetype); otherwise no packet is sent; the Map is unchanged
\* either way.
MediaOnlyFromUploads ==
  [][(last'.op = "media" /\ MapHas(users, last'.id)) =>
       LET id == last'.id
           url == last'.payload[1]
           user == MapGet(users, id)
       IN /\ users' = users
          /\ IF IsString(url) /\ Slice0(url.v, 9) = UploadPrefix
             THEN /\ id \in InRoom(users, user.room)
                  /\ \A d \in InRoom(users, user.room) :
                       /\ Received(out', d,
                            MediaEv(id, user.username, url.v,
                                    StringOf(last'.payload[2]), now)) = 1
                       /\ ReceivedOfType(out', d, "media") = 1
             ELSE out' = <<>>]_vars

\* C7 witness: a media event has been broadcast to the sender and another
\* member
MediaOnlyFromUploadsWitness ==
  /\ last.op = "media" /\ last.ok
  /\ \E d \in InRoom(users, last.user.room) :
       d # last.id /\ ReceivedOfType(out, d, "media") = 1
  /\ ReceivedOfType(out, last.id, "media") = 1

\* C8: a message event whose text trims to empty, from any open connection,
\* sends no packet and leaves the Map unchanged.
EmptyMessageDropped ==
  [][(/\ last'.op = "message"
      /\ IsString(last'.payload[1])
      /\ Trim(last'.payload[1].v) = <<>>)
       => (out' = <<>> /\ users' = users)]_vars

\* C8 witness: a blank message of a connection that has a session, in a room
\* with another member, has been dropped
EmptyMessageDroppedWitness ==
  /\ last.op = "message" /\ ~last.ok
  /\ last.payload[1] = JsStr(Rep(" ", 3))
  /\ last.user # NoUser
  /\ \E d \in InRoom(users, last.user.room) : d # last.id

\* the join that ran last has stored a session for raw fields username and
\* room: the names of the session are the raw fields cut to 30 characters and
\* trimmed, each 1 to 30 characters long
JoinStored(username, room) ==
  /\ last.ok
  /\ MapHas(users, last.id)
  /\ MapGet(users, last.id).username = Trim(Slice0(username, MaxNameLen))
  /\ MapGet(users, last.id).room = Trim(Slice0(room, MaxNameLen))
  /\ StrLen(MapGet(users, last.id).username) \in 1..MaxNameLen
  /\ StrLen(MapGet(users, last.id).room) \in 1..MaxNameLen

\* C9 as claimed: a join whose username and room are non-empty after
\* trimming succeeds, with names cut to at most 30 characters.
LongNamesTruncatedTrimmed ==
  (/\ last.op = "join"
   /\ IsString(last.payload[1]) /\ IsString(last.payload[2])
   /\ Trim(last.payload[1].v) # <<>>
   /\ Trim(last.payload[2].v) # <<>>)
    => JoinStored(last.payload[1].v, last.payload[2].v)

\* C9 as amended: a join whose username and room are non-empty after being
\* cut to their first 30 characters and trimmed succeeds, with those names.
LongNamesTruncated ==
  (/\ last.op = "join"
   /\ IsString(last.payload[1]) /\ IsString(last.payload[2])
   /\ Trim(Slice0(last.payload[1].v, MaxNameLen)) # <<>>
   /\ Trim(Slice0(last.payload[2].v, MaxNameLen)) # <<>>)
    => JoinStored(last.payload[1].v, last.payload[2].v)

\* C9 witness: a join with a username and a room longer than 30 characters
\* has stored them cut
LongNamesTruncatedWitness ==
  /\ last.op = "join" /\ last.ok
  /\ IsString(last.payload[1]) /\ IsString(last.payload[2])
  /\ StrLen(last.payload[1].v) > MaxNameLen
  /\ StrLen(last.payload[2].v) > MaxNameLen
  /\ MapGet(users, last.id).username = Rep("c", MaxNameLen)
  /\ MapGet(users, last.id).room = Rep("r", MaxNameLen - 1)

\* a join field that is missing, or a string that trims to empty
MissingOrBlank(x) == x = Undefined \/ (IsString(x) /\ Trim(x.v) = <<>>)

\* C11: a join event whose username or room is missing or trims to empty,
\* from any open connection in any state, sends no packet to any connection,
\* leaves the Map unchanged (a connection that had a session keeps it) and
\* leaves every socket's room subscriptions unchanged.
InvalidJoinDropped ==
  [][(/\ last'.op = "join"
      /\ (MissingOrBlank(last'.payload[1]) \/ MissingOrBlank(last'.payload[2])))
       => (out' = <<>> /\ users' = users /\ rooms' = rooms)]_vars

\* C11 witness: a join with a blank room, from a connection that has a
\* session in a room with another member, has been dropped and the session
\* is still in the Map
InvalidJoinDroppedWitness ==
  /\ last.op = "join" /\ ~last.ok
  /\ MissingOrBlank(last.payload[2])
  /\ out = <<>>
  /\ MapHas(users, last.id)
  /\ \E d \in InRoom(users, MapGet(users, last.id).room) : d # last.id

\* C12: reconnection. When the join that a reconnected page replays is
\* handled, the session of the page's old connection has been deleted: the
\* new connection is a fresh one next to nothing of the old, and the members
\* of the room have been sent "u left the room" (by the old connection's
\* disconnect) before "u joined the room" (by this join).
ReconnectLeftThenJoined ==
  \A k \in Client :
    (/\ last.op = "join" /\ last.ok
     /\ pages[k].prev # 0
     /\ last.id = pages[k].sock)
      => ~MapHas(users, pages[k].prev)

\* C13: the outcomes of an upload. A file of an allowed type over the size
\* limit is rejected with an error that names the cause, not the generic
\* message, and gets no url; a file of a type outside the allow-list is
\* rejected with "File type not allowed"; a request without a file is
\* rejected with "No file uploaded"; any other error is answered with the
\* generic "Bad request"; an accepted file gets a url under "/uploads/" and
\* its mimetype.
UploadOutcomes ==
  http # NoExchange =>
    LET req == http.req
        res == http.res
        wellFormed == req.file # NoFile /\ req.field = "media" /\ req.fault = ""
        allowed == req.file.mimetype \in ALLOWED_MIME_TYPES
        oversize == req.file.size > MaxFileSize
    IN /\ (wellFormed /\ allowed /\ oversize)
            => (res.status = 400 /\ res.body.error # "Bad request")
       /\ (wellFormed /\ ~allowed)
            => res = ErrorResponse("File type not allowed")
       /\ req.file = NoFile
            => res = ErrorResponse("No file uploaded")
       /\ (req.file # NoFile /\ allowed /\ ~oversize
             /\ (req.field # "media" \/ req.fault # ""))
            => res = ErrorResponse("Bad request")
       /\ (wellFormed /\ allowed /\ ~oversize)
            => /\ res.status = 200
               /\ StartsWith(res.body.url, UploadPrefix)
               /\ StrLen(res.body.url) > StrLen(UploadPrefix)
               /\ res.body.mimetype = req.file.mimetype

\* C14: a message, media, typing or stop-typing event leaves the Map
\* unchanged and, from a connection that has no session, sends no packet to
\* any connection; a step that changes the Map is a join or a disconnect.
OnlyJoinAndDisconnectWrite ==
  [][/\ last'.op \in {"message", "media", "typing", "stop-typing"}
          => /\ users' = users
             /\ ~MapHas(users, last'.id) => out' = <<>>
     /\ users' # users => last'.op \in {"join", "disconnect"}]_vars

\* C14 witness: a well-formed message from an open connection that has not
\* joined has been dropped while another connection has a session
OnlyJoinAndDisconnectWriteWitness ==
  /\ last.op = "message" /\ ~last.ok
  /\ ~MapHas(users, last.id)
  /\ IsString(last.payload[1])
  /\ SafeText(last.payload[1]) # <<>>
  /\ users # <<>>
  /\ out = <<>>

\* the event types the handler of each event emits
EmittedBy(op) ==
  CASE op \in {"join", "disconnect"} -> {"system", "room-users"}
    [] op \in {"message", "media", "typing", "stop-typing"} -> {op}
    [] OTHER -> {}

\* C15: delivery is at most once. The packets written out are those of the
\* handler that has just run and of no earlier one: none when no handler has
\* run, when a connection has only been opened, or when the event was
\* dropped, and otherwise only events that handler emits; no connection is
\* sent the same event twice; and every packet goes to a connection that is
\* open, never to one whose disconnect has been processed (the connection
\* being disconnected included).
DeliveredAtMostOnce ==
  /\ \A i \in DOMAIN out : sockets[out[i].to] = "open"
  /\ \A i, j \in DOMAIN out :
       (out[i].to = out[j].to /\ out[i].ev = out[j].ev) => i = j
  /\ (last.op \in {"none", "connection"} \/ ~last.ok) => out = <<>>
  /\ \A i \in DOMAIN out : out[i].ev.type \in EmittedBy(last.op)

\* C15 witness: a message has been broadcast, and delivered once to its
\* sender, after another connection had been disconnected
DeliveredAtMostOnceWitness ==
  /\ last.op = "message" /\ last.ok
  /\ \E c \in DOMAIN sockets : sockets[c] = "closed"
  /\ ReceivedOfType(out, last.id, "message") = 1

\* at most one timer of page k is pending, it is the 2-second timer that
\* emits stop-typing, and one is pending exactly while the page has emitted
\* typing and no stop-typing since: from the input that emits typing until
\* the timer runs out or a message is sent
TypingTimerArmed ==
  \A k \in Client :
    /\ Len(pages[k].timers) <= 1
    /\ \A i \in DOMAIN pages[k].timers :
         pages[k].timers[i] = [delay |-> TypingDelay, emits |-> "stop-typing"]
    /\ pages[k].typingOpen <=> pages[k].timers # <<>>

\* the event a step of page k emits, if it is a typing or a stop-typing,
\* opens or closes the page's typing
TypingEmissionsCounted ==
  \A k \in Client :
    Len(wire'[k]) > Len(wire[k]) =>
      LET e == wire'[k][Len(wire'[k])]
      IN e.type \in {"typing", "stop-typing"} =>
           (pages'[k].typingOpen <=> e.type = "typing")

\* C16: the typing debounce of the client. At most one stop-typing timer is
\* pending at any time, armed for 2 seconds by the input that emits typing;
\* every typing emission of a page is eventually followed by a stop-typing
\* emission of that page, by the timer or by a send; after a send no timer
\* is pending.
TypingDebounced ==
  /\ []TypingTimerArmed
  /\ [][TypingEmissionsCounted]_vars
  /\ \A k \in Client : pages[k].typingOpen ~> ~pages[k].typingOpen

\* C16 witness: a page has emitted typing and, its timer having run out,
\* stop-typing, and no timer is pending
TypingDebouncedWitness ==
  \E k \in Client :
    /\ Len(wire[k]) = 2
    /\ wire[k][1].type = "typing"
    /\ wire[k][2].type = "stop-typing"
    /\ pages[k].timers = <<>>
    /\ ~pages[k].typingOpen

\* C17: once the packets of every handler have been delivered, the roster
\* that each connection with a session has received last is getRoomUsers of
\* the room of its session.
RosterViewsCurrent ==
  Idle =>
    \A c \in Conn :
      MapHas(users, c) =>
        pages[c].usersList = getRoomUsers(MapGet(users, c).room)

\* nothing is in flight or pending: every handler has returned and its
\* packets are delivered, every emitted event is handled, no timer is
\* pending, and the server has noticed every connection that is gone
Settled ==
  /\ Idle
  /\ \A k \in Client : wire[k] = <<>> /\ pages[k].timers = <<>>
  /\ \A id \in DOMAIN sockets :
       sockets[id] = "open" => \E k \in Client : pages[k].sock = id

\* C18: typing state is cleared. Once nothing is in flight or pending, a
\* page whose connection has a session shows a username as typing only if
\* another connection has a session with that username in the same room: the
\* name of a user whose connection has disconnected or left has been
\* removed.
TypingStateCleared ==
  Settled =>
    \A k \in Client :
      MapHas(users, pages[k].sock) =>
        \A u \in pages[k].typingUsers :
          \E c \in InRoom(users, MapGet(users, pages[k].sock).room) :
            c # pages[k].sock /\ MapGet(users, c).username = u

\* C19: Leave is clean. The step that takes a page from the chat screen back
\* to the login screen leaves myUsername, myRoom and typingUsers empty; and
\* while the login screen is shown, from Leave to the next join, no step of
\* the page emits an event on its socket: no replayed join when the socket
\* reconnects, no typing or stop-typing of a timer.
LeaveIsClean ==
  [][\A k \in Client :
       /\ (ChatScreen(pages[k]) /\ ~ChatScreen(pages'[k]))
            => /\ pages'[k].myUsername = <<>>
               /\ pages'[k].myRoom = <<>>
               /\ pages'[k].typingUsers = {}
       /\ (~ChatScreen(pages[k]) /\ ~ChatScreen(pages'[k]))
            => Len(wire'[k]) <= Len(wire[k])]_vars

\* C20: own-message classification. For every page whose connection has a
\* session, joined under whatever username the server accepted, a message or
\* media event written out to that connection is classified as the page's own
\* (isMe) exactly when the handler that emitted it ran for that connection.
OwnMessagesMarked ==
  \A k \in Client : \A i \in DOMAIN out :
    (/\ pages[k].sock # 0
     /\ MapHas(users, pages[k].sock)
     /\ out[i].to = pages[k].sock
     /\ out[i].ev.type \in {"message", "media"})
      => (IsMe(pages[k], out[i].ev) <=> last.id = pages[k].sock)

====
